---- MODULE Spec2Model ----
(***************************************************************************)
(* Model of the keyword analysis core of content-ai-app (main_logic.py):   *)
(* the SerpApi key rotation, the bounded-retry upstream client, the four   *)
(* parallel workers of run_full_analysis, the response parsers and the     *)
(* trend estimator.                                                        *)
(***************************************************************************)
EXTENDS Integers, Sequences, FiniteSets, TLC

(***************************************************************************)
(* JSON documents as Python sees them after r.json(): tagged values.       *)
(* A dict is a function from its keys (strings) to JSON values.            *)
(***************************************************************************)
JNull == [t |-> "null"]

JBool(b) == [t |-> "bool", b |-> b]

JNum(n) == [t |-> "num", n |-> n]

JStr(s) == [t |-> "str", s |-> s]

JList(l) == [t |-> "list", l |-> l]

JDict(d) == [t |-> "dict", d |-> d]

EmptyDict == [k \in {} |-> JNull]

(* Outcome of evaluating a Python expression: a value or a raised exception *)
Ok(v) == [ok |-> TRUE, v |-> v]

Raise(e) == [ok |-> FALSE, exc |-> e]

(* Python truth value of a JSON value (the `not x` / `if x` tests) *)
Truthy(j) ==
    CASE j.t = "null" -> FALSE
      [] j.t = "bool" -> j.b
      [] j.t = "num"  -> j.n # 0
      [] j.t = "str"  -> j.s # ""
      [] j.t = "list" -> Len(j.l) > 0
      [] j.t = "dict" -> DOMAIN j.d # {}

(* `k in j`: key test on a dict, membership on a list, substring on a str  *)
(* (strings of the model are atoms: a string contains only itself), and a  *)
(* TypeError on None and numbers.                                          *)
PyIn(k, j) ==
    CASE j.t = "dict" -> Ok(k \in DOMAIN j.d)
      [] j.t = "list" -> Ok(\E i \in 1..Len(j.l) : j.l[i].t = "str" /\ j.l[i].s = k)
      [] j.t = "str"  -> Ok(j.s = k)
      [] OTHER        -> Raise("TypeError")

(* `j[k]` with a string subscript: only a dict supports it *)
PyIndex(j, k) ==
    IF j.t = "dict"
    THEN IF k \in DOMAIN j.d THEN Ok(j.d[k]) ELSE Raise("KeyError")
    ELSE Raise("TypeError")

(* `j.get(k, default)`: only a dict has the method *)
PyGet(j, k, default) ==
    IF j.t = "dict"
    THEN Ok(IF k \in DOMAIN j.d THEN j.d[k] ELSE default)
    ELSE Raise("AttributeError")

(* `a + b` as used on the two query buckets *)
PyAdd(a, b) ==
    CASE a.t = "list" /\ b.t = "list" -> Ok(JList(a.l \o b.l))
      [] a.t = "num" /\ b.t = "num"   -> Ok(JNum(a.n + b.n))
      [] OTHER                        -> Raise("TypeError")

(* the keys of a dict as Python strings, in one order; Python iterates in   *)
(* insertion order, which the dicts of the model do not record              *)
KeysOf(d) ==
    LET n == Cardinality(DOMAIN d)
    IN CHOOSE s \in [1..n -> {JStr(k) : k \in DOMAIN d}] :
         \A k \in DOMAIN d : \E i \in 1..n : s[i] = JStr(k)

(* `for item in j`: the items of a list, the keys of a dict, the characters *)
(* of a string (the strings the model iterates are one character long);     *)
(* None, numbers and booleans are not iterable.                             *)
PyIter(j) ==
    CASE j.t = "list" -> Ok(j.l)
      [] j.t = "str"  -> Ok(IF j.s = "" THEN <<>> ELSE <<j>>)
      [] j.t = "dict" -> Ok(KeysOf(j.d))
      [] j.t \in {"null", "num", "bool"} -> Raise("TypeError")

(***************************************************************************)
(* SECTION 3 of main_logic.py: the response parsers.  Each returns Ok(list *)
(* of items) or the exception the Python code raises on that input.        *)
(***************************************************************************)
(* an output record with title and type in each other's place *)
TopicItemSwapped(title, type, value) == JDict([title |-> type, type |-> title, value |-> value])

(* lines 171-175 and 178-182: the record appended to clean_topics *)
TopicItem(title, type, value) == JDict([title |-> title, type |-> type, value |-> value])

RECURSIVE CleanTopics(_, _)
CleanTopics(items, i) ==
    IF i > Len(items) THEN Ok(<<>>)
    ELSE LET item == items[i]
             nested == PyIn("topic", item)
         IN IF ~nested.ok THEN nested
            ELSE IF nested.v
            THEN LET tp == PyIndex(item, "topic") IN
                 IF ~tp.ok THEN tp ELSE
                 LET title == PyGet(tp.v, "title", JStr("Unknown"))
                     type  == PyGet(tp.v, "type", JStr("Topic"))
                     value == PyGet(item, "value", JStr(""))
                     rest  == CleanTopics(items, i + 1)
                 IN IF ~title.ok THEN title
                    ELSE IF ~type.ok THEN type
                    ELSE IF ~value.ok THEN value
                    ELSE IF ~rest.ok THEN rest
                    ELSE Ok(<<TopicItem(title.v, type.v, value.v)>> \o rest.v)
            ELSE LET flat == PyIn("title", item) IN
                 IF ~flat.ok THEN flat
                 ELSE LET rest == CleanTopics(items, i + 1) IN
                      IF ~flat.v THEN rest
                      ELSE LET title == PyGet(item, "title", JStr("Unknown"))
                               type  == PyGet(item, "type", JStr("Topic"))
                               value == PyGet(item, "value", JStr(""))
                           IN IF ~title.ok THEN title
                              ELSE IF ~type.ok THEN type
                              ELSE IF ~value.ok THEN value
                              ELSE IF ~rest.ok THEN rest
                              ELSE Ok(<<TopicItem(title.v, type.v, value.v)>> \o rest.v)

parse_related_topics(results_json) ==
    IF ~Truthy(results_json) THEN Ok(<<>>)
    ELSE LET has == PyIn("related_topics", results_json) IN
         IF ~has.ok THEN has
         ELSE IF ~has.v THEN Ok(<<>>)
         ELSE LET rt == PyIndex(results_json, "related_topics") IN
              IF ~rt.ok THEN rt ELSE
              LET top == PyGet(rt.v, "top", JList(<<>>)) IN
              IF ~top.ok THEN top ELSE
              LET raw_topics == IF Truthy(top.v) THEN top
                                ELSE PyGet(rt.v, "rising", JList(<<>>))
              IN IF ~raw_topics.ok THEN raw_topics ELSE
                 LET it == PyIter(raw_topics.v) IN
                 IF ~it.ok THEN it ELSE CleanTopics(it.v, 1)

QueryItem(query, rising) == JDict([query |-> query, rising |-> rising])

(* line 209: the flag of an output entry is the input record's own "rising" *)
(* field, False when the record has none                                    *)
RisingFlag(item) == PyGet(item, "rising", JBool(FALSE))

RECURSIVE CleanQueries(_, _)
CleanQueries(items, i) ==
    IF i > Len(items) THEN Ok(<<>>)
    ELSE LET item == items[i]
             has  == PyIn("query", item)
         IN IF ~has.ok THEN has
            ELSE IF ~has.v THEN CleanQueries(items, i + 1)
            ELSE LET q == PyIndex(item, "query")
                     r == RisingFlag(item)
                     rest == CleanQueries(items, i + 1)
                 IN IF ~q.ok THEN q
                    ELSE IF ~r.ok THEN r
                    ELSE IF ~rest.ok THEN rest
                    ELSE Ok(<<QueryItem(q.v, r.v)>> \o rest.v)

parse_related_queries(results_json) ==
    IF ~Truthy(results_json) THEN Ok(<<>>)
    ELSE LET has == PyIn("related_queries", results_json) IN
         IF ~has.ok THEN has
         ELSE IF ~has.v THEN Ok(<<>>)
         ELSE LET rq == PyIndex(results_json, "related_queries") IN
              IF ~rq.ok THEN rq ELSE
              LET top == PyGet(rq.v, "top", JList(<<>>)) IN
              IF ~top.ok THEN top ELSE
              LET rising == PyGet(rq.v, "rising", JList(<<>>)) IN
              IF ~rising.ok THEN rising ELSE
              LET both == PyAdd(top.v, rising.v) IN
              IF ~both.ok THEN both ELSE
              LET it == PyIter(both.v) IN
              IF ~it.ok THEN it ELSE CleanQueries(it.v, 1)

NewsItem(title, link, source, date) ==
    JDict([title |-> title, link |-> link, source |-> source, date |-> date])

(* str(source_raw) of line 222 on the values the model feeds it *)
PyStr(j) ==
    CASE j.t = "str"  -> j
      [] j.t = "null" -> JStr("None")
      [] j.t = "bool" -> JStr(IF j.b THEN "True" ELSE "False")
      [] j.t = "list" /\ j.l = <<>> -> JStr("[]")

RECURSIVE CleanNews(_, _)
CleanNews(items, i) ==
    IF i > Len(items) THEN Ok(<<>>)
    ELSE LET item == items[i]
             link == PyGet(item, "link", JNull)
         IN IF ~link.ok THEN link
            ELSE IF ~Truthy(link.v) THEN CleanNews(items, i + 1)
            ELSE LET source_raw == PyGet(item, "source", JStr("Unknown")) IN
                 IF ~source_raw.ok THEN source_raw ELSE
                 LET source == IF source_raw.v.t = "dict"
                               THEN PyGet(source_raw.v, "name", JStr("Unknown")).v
                               ELSE PyStr(source_raw.v)
                     title == PyGet(item, "title", JStr("No Title"))
                     date  == PyGet(item, "date", JStr(""))
                     rest  == CleanNews(items, i + 1)
                 IN IF ~rest.ok THEN rest
                    ELSE Ok(<<NewsItem(title.v, link.v, source, date.v)>> \o rest.v)

parse_news_results(results_json) ==
    IF ~Truthy(results_json) THEN Ok(<<>>)
    ELSE LET raw_news == PyGet(results_json, "news_results", JList(<<>>)) IN
         IF ~raw_news.ok THEN raw_news ELSE
         LET it == PyIter(raw_news.v) IN
         IF ~it.ok THEN it ELSE CleanNews(it.v, 1)

(* lines 135-139: the (date, value) pairs of one timeline record *)
RECURSIVE TimelineValues(_, _, _)
TimelineValues(date, values, i) ==
    IF i > Len(values) THEN Ok(<<>>)
    ELSE LET val == PyGet(values[i], "extracted_value", JNum(0)) IN
         IF ~val.ok THEN val ELSE
         LET rest == TimelineValues(date, values, i + 1) IN
         IF ~rest.ok THEN rest ELSE Ok(<<<<date, val.v>>>> \o rest.v)

RECURSIVE TimelinePoints(_, _)
TimelinePoints(timeline, i) ==
    IF i > Len(timeline) THEN Ok(<<>>)
    ELSE LET item == timeline[i]
             date == PyGet(item, "date", JStr(""))
         IN IF ~date.ok THEN date ELSE
            LET values == PyGet(item, "values", JList(<<>>)) IN
            IF ~values.ok THEN values
            ELSE IF ~Truthy(date.v) \/ ~Truthy(values.v) THEN TimelinePoints(timeline, i + 1)
            ELSE LET it == PyIter(values.v) IN
                 IF ~it.ok THEN it ELSE
                 LET here == TimelineValues(date.v, it.v, 1) IN
                 IF ~here.ok THEN here ELSE
                 LET rest == TimelinePoints(timeline, i + 1) IN
                 IF ~rest.ok THEN rest ELSE Ok(here.v \o rest.v)

(* parse_interest_over_time returns {} or {keyword: [(date, value), ...]};  *)
(* the model returns the list under the single key, <<>> standing for {},   *)
(* which is what worker_forecast's next(iter(parsed.values()), []) reads.   *)
parse_interest_over_time(results_json) ==
    IF ~Truthy(results_json) THEN Ok(<<>>)
    ELSE LET err == PyIn("error", results_json) IN
         IF ~err.ok THEN err
         ELSE IF err.v THEN Ok(<<>>)
         ELSE LET iot == PyGet(results_json, "interest_over_time", JDict(EmptyDict)) IN
              IF ~iot.ok THEN iot ELSE
              LET timeline == PyGet(iot.v, "timeline_data", JList(<<>>)) IN
              IF ~timeline.ok THEN timeline ELSE
              LET it == PyIter(timeline.v) IN
              IF ~it.ok THEN it ELSE TimelinePoints(it.v, 1)

(***************************************************************************)
(* try_forecast (lines 231-239).  The series values are Python ints; the   *)
(* products first_val * 1.15 and first_val * 0.85 are IEEE-754 doubles.    *)
(* A double is kept as an integer in three limbs of 18 bits; 1.15 is the   *)
(* double 0x12666666666666 * 2^-52 and 0.85 is 0x1B333333333333 * 2^-53.   *)
(***************************************************************************)
Limb == 2^18

(* the three limbs of the 53-bit significand of the double nearest 1.15 *)
M115 == <<75366, 104857, 157286>>

(* the three limbs of the 53-bit significand of the double nearest 0.85 *)
M085 == <<111411, 52428, 209715>>

(* number of bits by which a product's top limb exceeds a 53-bit significand *)
RECURSIVE Excess(_)
Excess(q) == IF q < 2^17 THEN 0 ELSE 1 + Excess(q \div 2)

(* float(n) * m rounded to nearest, ties to even: the significand of the    *)
(* double product, in limbs, at the scale of m.  0 <= n < 2^13.             *)
FloatMulInt(n, m) ==
    IF n = 0 THEN <<0, 0, 0>>
    ELSE LET q0 == n * m[3]
             q1 == n * m[2] + (q0 \div Limb)
             q2 == n * m[1] + (q1 \div Limb)
             p0 == q0 % Limb
             p1 == q1 % Limb
             e == Excess(q2)
             unit == 2^e
             r == p0 % unit
             kept == p0 - r
             odd == (kept \div unit) % 2 = 1
             up == e > 0 /\ (2 * r > unit \/ (2 * r = unit /\ odd))
             s0 == kept + (IF up THEN unit ELSE 0)
             s1 == p1 + (s0 \div Limb)
             s2 == q2 + (s1 \div Limb)
         IN <<s2, s1 % Limb, s0 % Limb>>

(* line 236: last_val > first_val * 1.15 *)
ExceedsRise(last_val, first_val) ==
    last_val * 2^16 > FloatMulInt(first_val, M115)[1]

(* line 237: last_val < first_val * 0.85 *)
BelowFall(last_val, first_val) ==
    LET p == FloatMulInt(first_val, M085)
        x == last_val * 2^17
    IN x < p[1] \/ (x = p[1] /\ (p[2] > 0 \/ p[3] > 0))

(* the decimal digits Python's f-string writes for a non-negative int *)
RECURSIVE IntToStr(_)
IntToStr(n) ==
    LET digit == <<"0", "1", "2", "3", "4", "5", "6", "7", "8", "9">>[(n % 10) + 1]
    IN IF n < 10 THEN <<digit>> ELSE IntToStr(n \div 10) \o <<digit>>

(* a series is a sequence of <<date, value>> pairs, value a JSON value;     *)
(* the reason string is kept as the sequence of its pieces                  *)
try_forecast(timeseries_list) ==
    IF Len(timeseries_list) < 2
    THEN Ok([trend |-> "unknown", reason |-> <<"insufficient data">>])
    ELSE LET first_val == timeseries_list[1][2]
             last_val == timeseries_list[Len(timeseries_list)][2]
         IN IF first_val.t # "num" \/ last_val.t # "num"
            THEN Raise("TypeError")
            ELSE LET trend == IF ExceedsRise(last_val.n, first_val.n) THEN "rising"
                              ELSE IF BelowFall(last_val.n, first_val.n) THEN "falling"
                              ELSE "flat"
                 IN Ok([trend |-> trend,
                        reason |-> <<"simple_delta: from ">> \o IntToStr(first_val.n)
                                   \o <<" to ">> \o IntToStr(last_val.n)])

(***************************************************************************)
(* SECTION 1: the SerpApi keys.  None is Python's None; a key is a string. *)
(***************************************************************************)
None == "<None>"

Services == {"forecast", "topics", "queries", "news"}

(* `if key:` / `if not api_key:` on an optional string *)
Falsy(k) == k = None \/ k = ""

(* _key_cycle (lines 42-48) is None when SERP_KEYS is empty, otherwise      *)
(* itertools.cycle(SERP_KEYS): pos is the 0-based index of the next key.    *)
MakeCycle(keys) == [active |-> keys # <<>>, pos |-> 0]

(* a rotation that hands out the first key on every draw *)
CycleKeyFirst(cyc, keys) == keys[1]

(* next(_key_cycle): the key handed out *)
CycleKey(cyc, keys) == keys[cyc.pos + 1]

(* a rotation whose position runs past the end of the pool *)
CycleAdvanceNoWrap(cyc, keys) == [cyc EXCEPT !.pos = cyc.pos + 1]

(* next(_key_cycle): the cycle after the draw; one C call, atomic under the GIL *)
CycleAdvance(cyc, keys) == [cyc EXCEPT !.pos = (cyc.pos + 1) % Len(keys)]

(* a draw that knows the service's own key only and never falls back *)
get_key_no_fallback(service_name, env, cyc, keys) ==
    [key |-> IF Falsy(env[service_name]) THEN None ELSE env[service_name],
     cyc |-> cyc, drew |-> FALSE]

(* get_key_for_service (lines 19-39): the key returned and the cycle after *)
get_key_for_service(service_name, env, cyc, keys) ==
    LET specific_key == env[service_name]
    IN IF ~Falsy(specific_key)
       THEN [key |-> specific_key, cyc |-> cyc, drew |-> FALSE]
       ELSE IF cyc.active
       THEN [key |-> CycleKey(cyc, keys), cyc |-> CycleAdvance(cyc, keys), drew |-> TRUE]
       ELSE [key |-> None, cyc |-> cyc, drew |-> FALSE]

(***************************************************************************)
(* Keywords are sequences of lower-case words (the string is the words     *)
(* joined by single spaces).  Surrogate stands for a word holding a lone   *)
(* UTF-16 surrogate, which JSON request bodies can carry and which Python  *)
(* can neither print on a UTF-8 stdout nor encode into a URL.              *)
(***************************************************************************)
Surrogate == "\\ud800"

Encodable(words) == \A i \in 1..Len(words) : words[i] # Surrogate

simplifiers == {"best", "top", "latest", "new", "good", "great", "cheap", "affordable", "premium"}

(* w.isdigit() and len(w) == 4, on the words of the model *)
IsYear(word) == word \in {"2024", "2025"}

Prefix(seq, n) == [i \in 1..(IF Len(seq) < n THEN Len(seq) ELSE n) |-> seq[i]]

(* process_keyword_for_trends (lines 85-93) *)
process_keyword_for_trends(kw) ==
    LET NotYear(word) == ~IsYear(word)
        NotSimplifier(word) == word \notin simplifiers
        words == SelectSeq(kw, NotYear)
        core == SelectSeq(words, NotSimplifier)
        core_words == IF core = <<>> THEN words ELSE core
    IN [original |-> kw, simplified |-> core_words, core |-> Prefix(core_words, 2)]

(* a list of variants that keeps duplicates and ends with the keyword again *)
versions_with_repeats(kw) ==
    LET processed == process_keyword_for_trends(kw)
    IN <<processed.original, processed.simplified, processed.core, processed.original>>

(* list(dict.fromkeys([...])) of line 100: duplicates removed, order kept *)
unique_versions(kw) ==
    LET processed == process_keyword_for_trends(kw)
        a == processed.original
        b == processed.simplified
        c == processed.core
    IN <<a>> \o (IF b = a THEN <<>> ELSE <<b>>)
            \o (IF c = a \/ c = b THEN <<>> ELSE <<c>>)

(***************************************************************************)
(* serp_get (lines 50-79).  One HTTP attempt has an outcome: an exception  *)
(* of requests.get, or a response with a status and a body that r.json()   *)
(* decodes or fails to decode.                                             *)
(***************************************************************************)
(* a loop that runs one turn too many *)
MaxAttemptsOffByOne == 3 + 1

(* range(3) of line 66 *)
MaxAttempts == 3

ErrJson(msg) == JDict([error |-> JStr(msg)])

Response(status, json) == [exc |-> "none", status |-> status, json |-> json]

NetworkError == [exc |-> "RequestException", status |-> 0, json |-> Raise("none")]

(* requests.get: a query that cannot be encoded into the URL raises         *)
(* UnicodeEncodeError before anything is sent                              *)
requests_get(q, outcome) ==
    IF Encodable(q) THEN outcome
    ELSE [exc |-> "UnicodeEncodeError", status |-> 0, json |-> Raise("none")]

(* lines 74-76: except requests.RequestException: sleep and go on *)
IsRequestException(exc, jsonErrIsRequestException) ==
    \/ exc = "RequestException"
    \/ exc = "JSONDecodeError" /\ jsonErrIsRequestException

(* lines 78-79: every other exception ends the call with an error value *)
OuterExcept(exc) == [raised |-> FALSE, ret |-> ErrJson(exc)]

(* an entry that sends the request even when there is no key at all *)
serp_get_key_unchecked(api_key, cyc, keys) ==
    IF Falsy(api_key) /\ cyc.active
    THEN [nokey |-> FALSE, key |-> CycleKey(cyc, keys), cyc |-> CycleAdvance(cyc, keys), drew |-> TRUE]
    ELSE [nokey |-> FALSE, key |-> api_key, cyc |-> cyc, drew |-> FALSE]

(* lines 54-59, the entry of serp_get: the key the requests will carry.     *)
(* A None or empty api_key is replaced by a draw from the main rotation;    *)
(* with no rotation the call returns at once.                               *)
serp_get_key(api_key, cyc, keys) ==
    IF ~Falsy(api_key) THEN [nokey |-> FALSE, key |-> api_key, cyc |-> cyc, drew |-> FALSE]
    ELSE IF cyc.active
    THEN [nokey |-> FALSE, key |-> CycleKey(cyc, keys), cyc |-> CycleAdvance(cyc, keys), drew |-> TRUE]
    ELSE [nokey |-> TRUE, key |-> None, cyc |-> cyc, drew |-> FALSE]

(* lines 66-79, one turn of the loop: attempt number `attempt` (0-based)    *)
(* meets `outcome`.  done says whether serp_get returns now, ret is what it *)
(* returns, slept whether time.sleep(1) ran, sent whether a request went    *)
(* out.  A failure on the last turn falls out of the loop to line 77.       *)
serp_attempt(attempt, q, outcome, jsonErrIsRequestException) ==
    LET r == requests_get(q, outcome)
        sent == r.exc # "UnicodeEncodeError"
        retry == IF attempt + 1 >= MaxAttempts
                 THEN [done |-> TRUE, raised |-> FALSE,
                       ret |-> ErrJson("Request failed after retries"),
                       slept |-> TRUE, sent |-> sent, seen |-> r]
                 ELSE [done |-> FALSE, raised |-> FALSE, ret |-> JNull,
                       slept |-> TRUE, sent |-> sent, seen |-> r]
        stop(x) == [done |-> TRUE, raised |-> x.raised, ret |-> x.ret,
                    slept |-> FALSE, sent |-> sent, seen |-> r]
    IN IF r.exc # "none"
       THEN IF IsRequestException(r.exc, jsonErrIsRequestException)
            THEN retry ELSE stop(OuterExcept(r.exc))
       ELSE IF r.status = 200
       THEN IF r.json.ok THEN stop([raised |-> FALSE, ret |-> r.json.v])
            ELSE IF IsRequestException(r.json.exc, jsonErrIsRequestException)
            THEN retry ELSE stop(OuterExcept(r.json.exc))
       ELSE retry

(***************************************************************************)
(* What the upstream can answer.  For each service: a well-formed body, a  *)
(* body whose payload key holds null, and an error object; besides a body  *)
(* that is not JSON, a non-200 status and a network exception.             *)
(***************************************************************************)
Point(date, n) ==
    JDict([date |-> JStr(date), values |-> JList(<<JDict([extracted_value |-> JNum(n)])>>)])

GoodBody(service) ==
    CASE service = "forecast" ->
           JDict([interest_over_time |->
                    JDict([timeline_data |->
                             JList(<<Point("2024-01-01", 50), Point("2024-06-01", 70)>>)])])
      [] service = "topics" ->
           JDict([related_topics |->
                    JDict([top |-> JList(<<JDict([topic |-> JDict([title |-> JStr("Bluetooth"),
                                                                   type |-> JStr("Topic")]),
                                                  value |-> JNum(10)])>>)])])
      [] service = "queries" ->
           JDict([related_queries |->
                    JDict([top |-> JList(<<JDict([query |-> JStr("running shoes")])>>),
                           rising |-> JList(<<JDict([query |-> JStr("trail shoes")])>>)])])
      [] service = "news" ->
           JDict([news_results |->
                    JList(<<JDict([title |-> JStr("Shoe news"), link |-> JStr("http://n/1"),
                                   source |-> JDict([name |-> JStr("Daily")]),
                                   date |-> JStr("today")])>>)])

MalformedBody(service) ==
    CASE service = "forecast" -> JDict([interest_over_time |-> JNull])
      [] service = "topics"   -> JDict([related_topics |-> JNull])
      [] service = "queries"  -> JDict([related_queries |-> JNull])
      [] service = "news"     -> JDict([news_results |-> JNull])

ErrorBody == ErrJson("upstream error")

Outcomes(service) ==
    { Response(200, Ok(GoodBody(service))),
      Response(200, Ok(MalformedBody(service))),
      Response(200, Ok(ErrorBody)),
      Response(200, Raise("JSONDecodeError")),
      Response(500, Raise("JSONDecodeError")),
      NetworkError }

(***************************************************************************)
(* SECTION 5: what each worker makes of the value its fetch returned.      *)
(* ret is Ok(value) or Raise(e) when the fetch raised; the worker's        *)
(* `except Exception` turns every exception into the branch default.       *)
(***************************************************************************)
ErrorVerdict == [trend |-> "unknown", reason |-> <<"error">>]

(* line 105: "error" not in result and "interest_over_time" in result *)
ForecastAccepts(result) ==
    LET e == PyIn("error", result) IN
    IF ~e.ok THEN e
    ELSE IF e.v THEN Ok(FALSE)
    ELSE PyIn("interest_over_time", result)

(* worker_forecast, lines 293-299 *)
worker_forecast_result(raw) ==
    IF ~raw.ok THEN ErrorVerdict
    ELSE LET parsed == parse_interest_over_time(raw.v) IN
         IF ~parsed.ok THEN ErrorVerdict
         ELSE LET f == try_forecast(parsed.v) IN
              IF f.ok THEN f.v ELSE ErrorVerdict

(* worker_topics, lines 303-308 *)
worker_topics_result(raw) ==
    IF ~raw.ok THEN <<>>
    ELSE LET parsed == parse_related_topics(raw.v) IN
         IF parsed.ok THEN parsed.v ELSE <<>>

(* worker_queries, lines 323-342 *)
worker_queries_result(raw) ==
    IF ~raw.ok THEN <<>>
    ELSE IF raw.v.t = "dict" /\ "error" \in DOMAIN raw.v.d THEN <<>>
    ELSE IF raw.v.t = "dict" /\ "related_queries" \notin DOMAIN raw.v.d THEN <<>>
    ELSE LET parsed == parse_related_queries(raw.v) IN
         IF parsed.ok THEN parsed.v ELSE <<>>

(* worker_news, lines 346-351 *)
worker_news_result(raw) ==
    IF ~raw.ok THEN <<>>
    ELSE LET parsed == parse_news_results(raw.v) IN
         IF parsed.ok THEN parsed.v ELSE <<>>

WorkerResult(service, raw) ==
    CASE service = "forecast" -> worker_forecast_result(raw)
      [] service = "topics"   -> worker_topics_result(raw)
      [] service = "queries"  -> worker_queries_result(raw)
      [] service = "news"     -> worker_news_result(raw)

(* the value a branch yields when it has nothing: [] or the unknown trend *)
IsDefault(service, res) ==
    IF service = "forecast" THEN res.trend = "unknown" ELSE res = <<>>

(***************************************************************************)
(* The state.  environ, SERP_KEYS, key_cycle: the process environment and  *)
(* the module-level rotation; drawn: the keys next(_key_cycle) handed out, *)
(* in order; keyword: the argument of run_full_analysis; orch: the thread  *)
(* running run_full_analysis; w: the four pool threads; result: what       *)
(* run_full_analysis returned; others: draws made by other requests of the *)
(* same process; fname, arg, locals, ret, fpc: a direct call of one        *)
(* function of the module, its argument, local variables and return value. *)
(***************************************************************************)
VARIABLES environ, SERP_KEYS, key_cycle, drawn, keyword, jsonErrIsRequestException,
          orch, w, result, others, fname, arg, locals, ret, fpc

mainVars == <<environ, SERP_KEYS, key_cycle, drawn, keyword, jsonErrIsRequestException,
              orch, w, result, others>>

callVars == <<fname, arg, locals, ret, fpc>>

vars == <<environ, SERP_KEYS, key_cycle, drawn, keyword, jsonErrIsRequestException,
          orch, w, result, others, fname, arg, locals, ret, fpc>>

(* bounds of the model *)
MaxOtherDraws == 1

MaxSeriesLen == 3

MaxBucket == 2

(* series values and dates fed to try_forecast: the thresholds' neighbours *)
TrendVals == {0, 17, 20, 23, 50, 70, 85, 100, 115}

DateOf(i) == <<"2024-0">> \o IntToStr(i)

(* the order in which run_full_analysis submits and collects (lines 360-369) *)
Order == <<"forecast", "topics", "queries", "news">>

EnvNone == [s \in Services |-> None]

EnvAll == [s \in Services |-> "key-" \o s]

(* forecast and queries have their own key, topics has none, news is set but empty *)
EnvMixed == [s \in Services |->
               CASE s = "forecast" -> "key-forecast"
                 [] s = "queries"  -> "key-queries"
                 [] s = "topics"   -> None
                 [] s = "news"     -> ""]

(* the other way round: topics and news have their own key *)
EnvSwap == [s \in Services |->
              CASE s = "topics"   -> "key-topics"
                [] s = "news"     -> "key-news"
                [] s = "forecast" -> None
                [] s = "queries"  -> ""]

(* every service but the forecast has its own key *)
EnvNoForecast == [s \in Services |-> IF s = "forecast" THEN None ELSE "key-" \o s]

Config(env, keys, kw, modern) == [env |-> env, keys |-> keys, kw |-> kw, modern |-> modern]

(* the process configurations explored: SERP_API_KEY_* and SERP_API_KEYS of *)
(* the environment (SERP_API_KEYS = ",k1" gives the pool <<"", "k1">>),     *)
(* the environment, the keyword of the request, and whether the installed   *)
(* requests raises its own JSONDecodeError (a RequestException, requests    *)
(* 2.27 and later) or the json module's ValueError                          *)
Configs ==
    { Config(EnvNone,  <<>>,             <<"shoes">>,         TRUE),
      Config(EnvNone,  <<"k1", "k2">>,   <<"shoes">>,         TRUE),
      Config(EnvAll,   <<>>,             <<"best", "shoes">>, TRUE),
      Config(EnvMixed, <<"k1">>,         <<"shoes">>,         FALSE),
      Config(EnvMixed, <<>>,             <<"shoes">>,         TRUE),
      Config(EnvAll,   <<"k1", "k2">>,   <<Surrogate>>,       TRUE),
      Config(EnvSwap,  <<"k1">>,         <<Surrogate>>,       FALSE),
      Config(EnvNone,  <<"k1", "k2", "k3">>, <<Surrogate>>,   TRUE),
      Config(EnvNone,  <<>>,             <<Surrogate>>,       TRUE),
      Config(EnvNoForecast, <<"", "k1">>, <<"best", "shoes">>, TRUE),
      Config(EnvNone,  <<"k1", "k2", "k3", "k4">>, <<Surrogate>>, TRUE) }

NoResult == <<>>

IdleWorker(b) ==
    [pc |-> "idle", key |-> None, api_key |-> None, v |-> 1, attempt |-> 0, ret |-> JNull,
     res |-> IF b = "forecast" THEN [trend |-> "", reason |-> <<>>] ELSE <<>>,
     escaped |-> FALSE, exc |-> "", sent |-> {}, nd |-> 0]

NoCall ==
    /\ fname = ""
    /\ arg = JNull
    /\ locals = <<>>
    /\ ret = Raise("not called")
    /\ fpc = "off"

Init ==
    /\ \E c \in Configs :
         /\ environ = c.env
         /\ SERP_KEYS = c.keys
         /\ keyword = c.kw
         /\ jsonErrIsRequestException = c.modern
    /\ key_cycle = MakeCycle(SERP_KEYS)
    /\ drawn = <<>>
    /\ orch = [pc |-> "submit", i |-> 1, exc |-> ""]
    /\ w = [b \in Services |-> IdleWorker(b)]
    /\ result = NoResult
    /\ others = 0
    /\ NoCall

(* executor.submit (lines 360-363): the next worker starts running *)
Submit ==
    /\ orch.pc = "submit"
    /\ w' = [w EXCEPT ![Order[orch.i]].pc = "start"]
    /\ orch' = IF orch.i = Len(Order) THEN [orch EXCEPT !.pc = "collect", !.i = 1]
               ELSE [orch EXCEPT !.i = @ + 1]
    /\ UNCHANGED <<environ, SERP_KEYS, key_cycle, drawn, keyword,
                   jsonErrIsRequestException, result, others, callVars>>

(* line 321: the debug print of worker_queries stands before its try; it    *)
(* raises UnicodeEncodeError on a keyword stdout cannot encode              *)
PrintRaises(b, kw) == b = "queries" /\ ~Encodable(kw)

(* the first statements of a worker (lines 290, 302, 320-321, 345) *)
Draw(b) ==
    /\ w[b].pc = "start"
    /\ LET g == get_key_for_service(b, environ, key_cycle, SERP_KEYS) IN
       /\ key_cycle' = g.cyc
       /\ drawn' = IF g.drew THEN Append(drawn, g.key) ELSE drawn
       /\ w' = [w EXCEPT ![b] =
                  IF PrintRaises(b, keyword)
                  THEN [@ EXCEPT !.pc = "raised", !.key = g.key, !.exc = "UnicodeEncodeError",
                                 !.nd = IF g.drew THEN 1 ELSE 0]
                  ELSE [@ EXCEPT !.pc = "call", !.key = g.key,
                                 !.nd = IF g.drew THEN 1 ELSE 0]]
    /\ UNCHANGED <<environ, SERP_KEYS, keyword, jsonErrIsRequestException,
                   orch, result, others, callVars>>

(* the query string a worker sends: the keyword, or for the forecast the    *)
(* keyword variant in turn (lines 102-104)                                  *)
QueryOf(b, wb, kw) == IF b = "forecast" THEN unique_versions(kw)[wb.v] ELSE kw

Finished(wb, value, res, escaped) ==
    [wb EXCEPT !.pc = "done", !.ret = value, !.res = res, !.escaped = escaped,
               !.attempt = 0]

(* what the worker does once serp_get has returned `value` (or raised):     *)
(* fetch_interest_over_time_raw goes on to the next variant (lines 102-108),*)
(* the other fetchers return the value, and the worker parses it.           *)
AfterReturn(b, wb, got, kw) ==
    IF ~got.ok THEN Finished(wb, JNull, WorkerResult(b, got), TRUE)
    ELSE IF b # "forecast" THEN Finished(wb, got.v, WorkerResult(b, got), FALSE)
    ELSE LET acc == ForecastAccepts(got.v) IN
         IF ~acc.ok THEN Finished(wb, got.v, ErrorVerdict, FALSE)
         ELSE IF acc.v THEN Finished(wb, got.v, WorkerResult(b, got), FALSE)
         ELSE IF wb.v < Len(unique_versions(kw))
         THEN [wb EXCEPT !.v = @ + 1, !.ret = got.v, !.attempt = 0]
         ELSE Finished(wb, got.v,
                       WorkerResult(b, Ok(ErrJson("Could not fetch interest over time"))),
                       FALSE)

(* one turn of serp_get's loop in worker b; the first turn of a call also   *)
(* runs the entry of serp_get (lines 54-62)                                 *)
Attempt(b) ==
    /\ w[b].pc = "call"
    /\ LET wb == w[b]
           k == IF wb.attempt = 0 THEN serp_get_key(wb.key, key_cycle, SERP_KEYS)
                ELSE [nokey |-> FALSE, key |-> wb.api_key, cyc |-> key_cycle, drew |-> FALSE]
           q == QueryOf(b, wb, keyword)
       IN /\ key_cycle' = k.cyc
          /\ drawn' = IF k.drew THEN Append(drawn, k.key) ELSE drawn
          /\ IF k.nokey
             THEN w' = [w EXCEPT ![b] = AfterReturn(b, wb, Ok(ErrJson("No API key")), keyword)]
             ELSE \E o \in Outcomes(b) :
                  \E a \in {serp_attempt(wb.attempt, q, o, jsonErrIsRequestException)} :
                  \E wk \in {[wb EXCEPT !.api_key = k.key,
                                         !.nd = IF k.drew THEN @ + 1 ELSE @,
                                         !.sent = IF a.sent THEN @ \cup {k.key} ELSE @]} :
                  \E got \in {IF a.raised THEN Raise("Exception") ELSE Ok(a.ret)} :
                    w' = [w EXCEPT ![b] =
                               IF a.done
                               THEN AfterReturn(b, wk, got, keyword)
                               ELSE [wk EXCEPT !.attempt = @ + 1]]
    /\ UNCHANGED <<environ, SERP_KEYS, keyword, jsonErrIsRequestException,
                   orch, result, others, callVars>>

(* a future that counts as done as soon as its worker has started *)
FutureDoneEarly(wb) == wb.pc # "idle"

(* Future.result() returns or raises once the worker has finished *)
FutureDone(wb) == wb.pc \in {"done", "raised"}

(* lines 366-369: the results are collected in submission order; a worker   *)
(* that raised makes result() raise, which leaves the with block            *)
Collect ==
    /\ orch.pc = "collect"
    /\ FutureDone(w[Order[orch.i]])
    /\ orch' = IF w[Order[orch.i]].pc = "raised"
               THEN [orch EXCEPT !.pc = "shutdown", !.exc = w[Order[orch.i]].exc]
               ELSE IF orch.i = Len(Order) THEN [orch EXCEPT !.pc = "shutdown"]
               ELSE [orch EXCEPT !.i = @ + 1]
    /\ UNCHANGED <<environ, SERP_KEYS, key_cycle, drawn, keyword,
                   jsonErrIsRequestException, w, result, others, callVars>>

(* the exit of the with block is executor.shutdown(wait=True) *)
ShutdownDone(ws) == \A b \in Services : FutureDone(ws[b])

(* lines 371-382: the record assembled, or the error of the catch-all *)
Assemble(kw, ws, exc) ==
    IF exc # "" THEN [error |-> exc]
    ELSE [keyword |-> kw,
          related_topics |-> ws["topics"].res,
          related_queries |-> ws["queries"].res,
          trend_data |-> ws["forecast"].res,
          news_items |-> ws["news"].res]

Return ==
    /\ orch.pc = "shutdown"
    /\ ShutdownDone(w)
    /\ result' = Assemble(keyword, w, orch.exc)
    /\ orch' = [orch EXCEPT !.pc = "returned"]
    /\ UNCHANGED <<environ, SERP_KEYS, key_cycle, drawn, keyword,
                   jsonErrIsRequestException, w, others, callVars>>

(* a worker of another request of the same process draws from the rotation *)
OtherDraw ==
    /\ others < MaxOtherDraws
    /\ key_cycle.active
    /\ others' = others + 1
    /\ drawn' = Append(drawn, CycleKey(key_cycle, SERP_KEYS))
    /\ key_cycle' = CycleAdvance(key_cycle, SERP_KEYS)
    /\ UNCHANGED <<environ, SERP_KEYS, keyword, jsonErrIsRequestException,
                   orch, w, result, callVars>>

Next ==
    \/ Submit
    \/ \E b \in Services : Draw(b)
    \/ \E b \in Services : Attempt(b)
    \/ Collect
    \/ Return
    \/ OtherDraw

Spec == Init /\ [][Next]_vars

(***************************************************************************)
(* Direct calls of single functions of the module, with the rest of the    *)
(* process at rest.                                                        *)
(***************************************************************************)
AtRest ==
    /\ environ = EnvNone
    /\ keyword = <<"shoes">>
    /\ orch = [pc |-> "off", i |-> 1, exc |-> ""]
    /\ w = [b \in Services |-> IdleWorker(b)]
    /\ result = NoResult
    /\ others = 0
    /\ drawn = <<>>
    /\ key_cycle = MakeCycle(SERP_KEYS)

(* serp_get(params, api_key): every kind of api_key, with and without a    *)
(* rotation, an encodable and an unencodable query, both requests builds   *)
SerpArgs ==
    { [q |-> q, api_key |-> k] : q \in {<<"shoes">>, <<Surrogate>>},
                                 k \in {None, "", "key-direct"} }

AllOutcomes == UNION { Outcomes(s) : s \in Services }

InitSerp ==
    /\ SERP_KEYS \in {<<>>, <<"k1", "k2">>}
    /\ AtRest
    /\ jsonErrIsRequestException \in BOOLEAN
    /\ fname = "serp_get"
    /\ arg \in SerpArgs
    /\ locals = [attempt |-> 0, api_key |-> None, sleeps |-> 0, sent |-> 0, trace |-> <<>>]
    /\ ret = Raise("not called")
    /\ fpc = "call"

(* one turn of the loop of a direct serp_get call; the first turn also runs *)
(* the entry (lines 54-62).  locals.trace lists what each attempt met.      *)
SerpStep ==
    /\ fname = "serp_get"
    /\ fpc = "call"
    /\ LET k == IF locals.attempt = 0 THEN serp_get_key(arg.api_key, key_cycle, SERP_KEYS)
                ELSE [nokey |-> FALSE, key |-> locals.api_key, cyc |-> key_cycle, drew |-> FALSE]
       IN /\ key_cycle' = k.cyc
          /\ drawn' = IF k.drew THEN Append(drawn, k.key) ELSE drawn
          /\ IF k.nokey
             THEN /\ ret' = Ok(ErrJson("No API key"))
                  /\ fpc' = "returned"
                  /\ locals' = locals
             ELSE \E o \in AllOutcomes :
                    LET a == serp_attempt(locals.attempt, arg.q, o, jsonErrIsRequestException) IN
                    /\ locals' = [locals EXCEPT !.api_key = k.key,
                                                !.attempt = IF a.done THEN @ ELSE @ + 1,
                                                !.sleeps = IF a.slept THEN @ + 1 ELSE @,
                                                !.sent = IF a.sent THEN @ + 1 ELSE @,
                                                !.trace = Append(@, a.seen)]
                    /\ ret' = IF ~a.done THEN ret
                              ELSE IF a.raised THEN Raise("Exception") ELSE Ok(a.ret)
                    /\ fpc' = IF a.done THEN "returned" ELSE "call"
    /\ UNCHANGED <<environ, SERP_KEYS, keyword, jsonErrIsRequestException,
                   orch, w, result, others, fname, arg>>

NextSerp == SerpStep

SpecSerp == InitSerp /\ [][NextSerp]_vars

(* try_forecast on every series of at most MaxSeriesLen points *)
SeriesInputs ==
    UNION { { [i \in 1..n |-> <<DateOf(i), JNum(f[i])>>] : f \in [1..n -> TrendVals] }
            : n \in 0..MaxSeriesLen }

InitForecast ==
    /\ SERP_KEYS = <<>>
    /\ AtRest
    /\ jsonErrIsRequestException = TRUE
    /\ fname = "try_forecast"
    /\ arg \in SeriesInputs
    /\ locals = <<>>
    /\ ret = Raise("not called")
    /\ fpc = "call"

CallTryForecast ==
    /\ fname = "try_forecast"
    /\ fpc = "call"
    /\ ret' = try_forecast(arg)
    /\ fpc' = "returned"
    /\ UNCHANGED <<mainVars, fname, arg, locals>>

NextForecast == CallTryForecast

SpecForecast == InitForecast /\ [][NextForecast]_vars

(* parse_related_queries on responses whose two buckets hold at most        *)
(* MaxBucket records each, shaped like the upstream's: with and without a   *)
(* "query" field, none carrying a "rising" field                            *)
QueryRecords ==
    { JDict([query |-> JStr("running shoes"), value |-> JNum(100)]),
      JDict([query |-> JStr("trail shoes"), value |-> JNum(60)]),
      JDict([value |-> JNum(5)]) }

Lists(S, max) == UNION { [1..n -> S] : n \in 0..max }

QueryInputs ==
    { JDict([related_queries |-> JDict([top |-> JList(t), rising |-> JList(r)])])
        : t \in Lists(QueryRecords, MaxBucket), r \in Lists(QueryRecords, MaxBucket) }

InitQueries ==
    /\ SERP_KEYS = <<>>
    /\ AtRest
    /\ jsonErrIsRequestException = TRUE
    /\ fname = "parse_related_queries"
    /\ arg \in QueryInputs
    /\ locals = <<>>
    /\ ret = Raise("not called")
    /\ fpc = "call"

CallParseQueries ==
    /\ fname = "parse_related_queries"
    /\ fpc = "call"
    /\ ret' = parse_related_queries(arg)
    /\ fpc' = "returned"
    /\ UNCHANGED <<mainVars, fname, arg, locals>>

NextQueries == CallParseQueries

SpecQueries == InitQueries /\ [][NextQueries]_vars

(***************************************************************************)
(* Properties of run_full_analysis (specification Spec)                    *)
(***************************************************************************)
Field(b) ==
    CASE b = "forecast" -> "trend_data"
      [] b = "topics"   -> "related_topics"
      [] b = "queries"  -> "related_queries"
      [] b = "news"     -> "news_items"

Returned == orch.pc = "returned"

HasError == "error" \in DOMAIN result

ErrNoKey == ErrJson("No API key")

ErrRetries == ErrJson("Request failed after retries")

(* C1: whatever the keyword and whatever happens in the branches, the call  *)
(* returns a record with the five fields and no top-level error, in which   *)
(* the field of a branch whose upstream answered well is that answer        *)
(* normalized and the field of every other branch is its default.           *)
BranchIsolation ==
    Returned =>
      /\ ~HasError
      /\ DOMAIN result = {"keyword", "related_topics", "related_queries",
                          "trend_data", "news_items"}
      /\ result["keyword"] = keyword
      /\ \A b \in Services :
           IF w[b].pc = "done" /\ w[b].ret = GoodBody(b)
           THEN result[Field(b)] = WorkerResult(b, Ok(GoodBody(b)))
           ELSE IsDefault(b, result[Field(b)])

(* C2: run_full_analysis returns only after all four workers have finished; *)
(* no worker is then still running or able to send a request, and a record  *)
(* that was assembled holds the final value of each of the four workers.    *)
JoinBarrier ==
    Returned =>
      /\ \A b \in Services : w[b].pc \in {"done", "raised"}
      /\ ~HasError => \A b \in Services : w[b].pc = "done" /\ result[Field(b)] = w[b].res

JoinWitness ==
    /\ Returned
    /\ ~HasError
    /\ w["news"].ret = GoodBody("news")
    /\ w["forecast"].ret = ErrRetries

(* C4: a branch whose service has no key of its own while the shared pool   *)
(* is empty draws None, never sends a request, never raises, and yields its *)
(* default value.                                                          *)
NoCredential(b) == Falsy(environ[b]) /\ SERP_KEYS = <<>>

FailClosed ==
    \A b \in Services :
      NoCredential(b) =>
        /\ w[b].pc \in {"call", "done"} => w[b].key = None
        /\ w[b].sent = {}
        /\ w[b].pc # "raised"
        /\ w[b].pc = "done" => IsDefault(b, w[b].res)
        /\ Returned => ~HasError /\ IsDefault(b, result[Field(b)])

(* C5: the key a worker draws is the service's own key when one is set; if  *)
(* none is set and the shared pool is not empty it is a key of the pool     *)
(* (the one key of a one-key pool), never None; it is None only when there  *)
(* is neither.                                                             *)
HasDrawn(b) == w[b].pc \in {"call", "done", "raised"}

CredentialFallback ==
    \A b \in Services :
      HasDrawn(b) =>
        IF ~Falsy(environ[b]) THEN w[b].key = environ[b]
        ELSE IF SERP_KEYS # <<>>
        THEN /\ w[b].key # None
             /\ \E i \in 1..Len(SERP_KEYS) : w[b].key = SERP_KEYS[i]
             /\ Len(SERP_KEYS) = 1 => w[b].key = SERP_KEYS[1]
        ELSE w[b].key = None

FallbackWitness ==
    /\ HasDrawn("news")
    /\ Falsy(environ["news"])
    /\ ~Falsy(environ["queries"])
    /\ Len(SERP_KEYS) = 1
    /\ w["news"].key = SERP_KEYS[1]

(* C6: the i-th draw from the pool (counting from 0, whoever draws) returns *)
(* key i mod n, every n consecutive draws return each key once, and no step *)
(* changes the pool.                                                       *)
RoundRobinOrder ==
    LET n == Len(SERP_KEYS) IN
    /\ \A i \in 1..Len(drawn) : drawn[i] = SERP_KEYS[((i - 1) % n) + 1]
    /\ \A s \in 1..Len(drawn) :
         s + n - 1 <= Len(drawn) =>
           \A k \in 1..n : Cardinality({j \in s..(s + n - 1) : drawn[j] = SERP_KEYS[k]}) = 1

RoundRobin == [](RoundRobinOrder) /\ [][SERP_KEYS' = SERP_KEYS]_vars

RoundRobinWitness ==
    /\ Len(SERP_KEYS) = 3
    /\ Len(drawn) = 5
    /\ drawn[4] = SERP_KEYS[1]

(* C7: under every interleaving of the draws of the four workers and of     *)
(* other requests, every draw returns a key of the pool, the cursor has     *)
(* advanced by exactly the number of draws made, and it stays in 0..n-1.    *)
TotalDraws ==
    others + w["forecast"].nd + w["topics"].nd + w["queries"].nd + w["news"].nd

AtomicDraws ==
    key_cycle.active =>
      LET n == Len(SERP_KEYS) IN
      /\ key_cycle.pos \in 0..(n - 1)
      /\ Len(drawn) = TotalDraws
      /\ key_cycle.pos = TotalDraws % n
      /\ \A i \in 1..Len(drawn) : \E k \in 1..n : drawn[i] = SERP_KEYS[k]
      /\ \A b \in Services : w[b].nd > 0 => \E k \in 1..n : w[b].key = SERP_KEYS[k]

AtomicDrawsWitness ==
    /\ Len(SERP_KEYS) = 2
    /\ others = 1
    /\ \A b \in Services : w[b].pc = "call" /\ w[b].nd = 1
    /\ key_cycle.pos = 1

(* C8 as claimed: the field the caller receives for a branch whose          *)
(* credential is absent differs from the field it receives when the         *)
(* branch's requests failed after the retries, or the call reports an error *)
AbsentCredentialDistinct ==
    \A b \in Services :
      (Returned /\ w[b].pc = "done" /\ w[b].ret = ErrNoKey) =>
         \/ HasError
         \/ result[Field(b)] # WorkerResult(b, Ok(ErrRetries))

(* C8 as amended: the absent credential is told apart from failed retries   *)
(* by serp_get's return value only ('No API key', returned before any       *)
(* request is sent, against 'Request failed after retries'); the worker     *)
(* turns both into the same default, so the returned record is the same.    *)
AbsentCredentialSameDefault ==
    \A b \in Services :
      w[b].pc = "done" =>
        /\ (Falsy(w[b].key) /\ ~key_cycle.active) => w[b].ret = ErrNoKey
        /\ w[b].ret = ErrNoKey =>
             /\ w[b].sent = {}
             /\ w[b].res = WorkerResult(b, Ok(ErrRetries))
             /\ IsDefault(b, w[b].res)
        /\ w[b].ret = ErrRetries =>
             /\ w[b].sent # {}
             /\ IsDefault(b, w[b].res)
        /\ (Returned /\ ~HasError) => result[Field(b)] = w[b].res

AbsentCredentialWitness ==
    /\ Returned
    /\ ~HasError
    /\ w["topics"].ret = ErrNoKey
    /\ w["queries"].ret = ErrRetries
    /\ result["related_topics"] = <<>>
    /\ result["related_queries"] = <<>>

(***************************************************************************)
(* Properties of serp_get (specification SpecSerp)                         *)
(***************************************************************************)
Status200(o) == o.exc = "none" /\ o.status = 200

Decoded200(o) == Status200(o) /\ o.json.ok

(* a non-200 status or a network exception *)
FailedAttempt(o) == o.exc = "RequestException" \/ (o.exc = "none" /\ o.status # 200)

SerpReturned == fname = "serp_get" /\ fpc = "returned"

Count(seq, P(_)) == Cardinality({i \in 1..Len(seq) : P(seq[i])})

(* the parts of C3 that do not depend on how a 200 is treated: at most 3    *)
(* attempts, a value and never an exception, a backoff after each failed    *)
(* attempt and then the next attempt, the error value after 3 failures      *)
RetryCommon ==
    fname = "serp_get" =>
      LET trace == locals.trace IN
      /\ Len(trace) <= 3
      /\ locals.sent <= 3
      /\ SerpReturned => ret.ok
      /\ \A i \in 1..Len(trace) :
           FailedAttempt(trace[i]) =>
             /\ locals.sleeps >= Count(SubSeq(trace, 1, i), FailedAttempt)
             /\ IF i < 3 THEN fpc = "call" \/ Len(trace) > i
                ELSE SerpReturned /\ ret = Ok(ErrRetries)

(* C3 as claimed: besides, the first attempt that yields status 200 is the  *)
(* last attempt and the call returns that response's body.                  *)
RetryProtocolAny200 ==
    /\ RetryCommon
    /\ fname = "serp_get" =>
         \A i \in 1..Len(locals.trace) :
           Status200(locals.trace[i]) =>
             /\ i = Len(locals.trace)
             /\ SerpReturned
             /\ locals.trace[i].json.ok
             /\ ret = Ok(locals.trace[i].json.v)

(* C3 as amended: the first attempt that yields status 200 with a body that *)
(* decodes is the last attempt and the call returns the decoded body; a 200 *)
(* whose body does not decode is either retried like a failed attempt or    *)
(* ends the call with an error value, as the installed requests decides;    *)
(* the sleeps taken are exactly the retried attempts.                       *)
RetryProtocol ==
    /\ RetryCommon
    /\ fname = "serp_get" =>
         LET trace == locals.trace
             Undecoded(o) == Status200(o) /\ ~o.json.ok
             Retried(o) == FailedAttempt(o) \/ (Undecoded(o) /\ jsonErrIsRequestException)
         IN /\ locals.sleeps = Count(trace, Retried)
            /\ \A i \in 1..Len(trace) :
                 /\ Decoded200(trace[i]) =>
                      i = Len(trace) /\ SerpReturned /\ ret = Ok(trace[i].json.v)
                 /\ Undecoded(trace[i]) =>
                      IF jsonErrIsRequestException
                      THEN IF i < 3 THEN fpc = "call" \/ Len(trace) > i
                           ELSE SerpReturned /\ ret = Ok(ErrRetries)
                      ELSE i = Len(trace) /\ SerpReturned /\ ret = Ok(ErrJson("JSONDecodeError"))

RetryWitness ==
    /\ SerpReturned
    /\ Len(locals.trace) = 3
    /\ locals.trace[1] = Response(500, Raise("JSONDecodeError"))
    /\ locals.trace[2] = NetworkError
    /\ locals.trace[3] = Response(200, Ok(GoodBody("topics")))
    /\ ret = Ok(GoodBody("topics"))
    /\ locals.sleeps = 2

(***************************************************************************)
(* Properties of try_forecast (specification SpecForecast)                 *)
(***************************************************************************)
(* C9: fewer than 2 points give 'unknown'; otherwise the label is 'rising'  *)
(* iff last > 1.15 x first, 'falling' iff last < 0.85 x first and 'flat'    *)
(* otherwise (so exactly 1.15 x and exactly 0.85 x give 'flat'), and the    *)
(* reason names the first and the last value.                              *)
TrendRule ==
    (fname = "try_forecast" /\ fpc = "returned") =>
      /\ ret.ok
      /\ IF Len(arg) < 2 THEN ret.v.trend = "unknown"
         ELSE LET first == arg[1][2].n
                  last == arg[Len(arg)][2].n
              IN /\ ret.v.trend = (IF 100 * last > 115 * first THEN "rising"
                                   ELSE IF 100 * last < 85 * first THEN "falling"
                                   ELSE "flat")
                 /\ ret.v.reason = <<"simple_delta: from ">> \o IntToStr(first)
                                   \o <<" to ">> \o IntToStr(last)

(***************************************************************************)
(* Properties of parse_related_queries (specification SpecQueries)         *)
(***************************************************************************)
HasQuery(item) == "query" \in DOMAIN item.d

Tagged(items, flag) == [i \in 1..Len(items) |-> QueryItem(items[i].d["query"], JBool(flag))]

(* C10: the output is the records of the 'top' bucket followed by those of  *)
(* the 'rising' bucket, in order, without the records that have no query;   *)
(* entries from 'rising' carry rising = true, entries from 'top' false.     *)
QueriesMergedAndTagged ==
    (fname = "parse_related_queries" /\ fpc = "returned") =>
      LET buckets == arg.d["related_queries"].d
          top == SelectSeq(buckets["top"].l, HasQuery)
          rising == SelectSeq(buckets["rising"].l, HasQuery)
      IN /\ ret.ok
         /\ ret.v = Tagged(top, FALSE) \o Tagged(rising, TRUE)

(***************************************************************************)
(* Direct calls of parse_related_topics on well-formed responses: the      *)
(* "related_topics" object with a "top" and a "rising" bucket, each absent *)
(* or a list of at most MaxBucket records in the upstream's shapes.        *)
(***************************************************************************)
TopicRecords ==
    { JDict([topic |-> JDict([title |-> JStr("Bluetooth"), type |-> JStr("Topic")]),
             value |-> JNum(10)]),
      JDict([topic |-> JDict([type |-> JStr("Brand")]), value |-> JNum(7)]),
      JDict([topic |-> JDict([title |-> JStr("Nike")]), value |-> JNum(3)]),
      JDict([title |-> JStr("Sneakers"), type |-> JStr("Product"), value |-> JNum(5)]),
      JDict([title |-> JStr("Adidas"), value |-> JNum(2)]),
      JDict([value |-> JNum(1)]) }

(* the mark of a key that a dict does not have *)
Absent == [t |-> "absent"]

(* a dict with the keys of `fields` whose value is not Absent *)
DictOf(fields) ==
    JDict([k \in {x \in DOMAIN fields : fields[x] # Absent} |-> fields[k]])

TopicBuckets == { JList(l) : l \in Lists(TopicRecords, MaxBucket) } \cup {Absent}

TopicInputs ==
    { JDict([related_topics |-> DictOf([top |-> t, rising |-> r])])
        : t \in TopicBuckets, r \in TopicBuckets }

InitTopics ==
    /\ SERP_KEYS = <<>>
    /\ AtRest
    /\ jsonErrIsRequestException = TRUE
    /\ fname = "parse_related_topics"
    /\ arg \in TopicInputs
    /\ locals = <<>>
    /\ ret = Raise("not called")
    /\ fpc = "call"

CallParseTopics ==
    /\ fname = "parse_related_topics"
    /\ fpc = "call"
    /\ ret' = parse_related_topics(arg)
    /\ fpc' = "returned"
    /\ UNCHANGED <<mainVars, fname, arg, locals>>

NextTopics == CallParseTopics

SpecTopics == InitTopics /\ [][NextTopics]_vars

(***************************************************************************)
(* Properties of parse_related_topics (specification SpecTopics)           *)
(***************************************************************************)
Bucket(buckets, name) == IF name \in DOMAIN buckets THEN buckets[name].l ELSE <<>>

(* a record is in the nested shape when it has a "topic" object and in the *)
(* flat shape when it has a "title" of its own                             *)
TopicShaped(rec) == "topic" \in DOMAIN rec.d \/ "title" \in DOMAIN rec.d

FieldOr(d, name, filler) == IF name \in DOMAIN d THEN d[name] ELSE JStr(filler)

NormalTopic(rec) ==
    LET holder == IF "topic" \in DOMAIN rec.d THEN rec.d["topic"].d ELSE rec.d
    IN JDict([title |-> FieldOr(holder, "title", "Unknown"),
              type  |-> FieldOr(holder, "type", "Topic"),
              value |-> rec.d["value"]])

Parsers == {"parse_related_topics", "parse_related_queries", "parse_news_results",
            "parse_interest_over_time"}

(* the function `name` of the module applied to results_json *)
CallParser(name, results_json) ==
    CASE name = "parse_related_topics"     -> parse_related_topics(results_json)
      [] name = "parse_related_queries"    -> parse_related_queries(results_json)
      [] name = "parse_news_results"       -> parse_news_results(results_json)
      [] name = "parse_interest_over_time" -> parse_interest_over_time(results_json)

(* the key of the response each parser reads *)
PayloadKey(name) ==
    CASE name = "parse_related_topics"     -> "related_topics"
      [] name = "parse_related_queries"    -> "related_queries"
      [] name = "parse_news_results"       -> "news_results"
      [] name = "parse_interest_over_time" -> "interest_over_time"

Under(key, value) == JDict([k \in {key} |-> value])

WrongValues == {JNull, JNum(5), JStr("x")}

MissingInputs == {JNull, JDict(EmptyDict), ErrorBody, JNum(5), JStr("x")}

MalformedPayloads(name) ==
    WrongValues \cup {JList(<<>>)}
    \cup (IF name \in {"parse_related_topics", "parse_related_queries"}
          THEN { Under(b, v) : b \in {"top", "rising"}, v \in WrongValues }
               \cup { Under(b, JList(<<v>>)) : b \in {"top", "rising"}, v \in WrongValues }
          ELSE {})
    \cup (IF name = "parse_related_topics"
          THEN { Under("top", JList(<<Under("topic", v)>>)) : v \in WrongValues }
          ELSE {})
    \cup (IF name = "parse_news_results"
          THEN { JList(<<v>>) : v \in WrongValues }
          ELSE {})
    \cup (IF name = "parse_interest_over_time"
          THEN { Under("timeline_data", v) : v \in WrongValues }
               \cup { Under("timeline_data", JList(<<v>>)) : v \in WrongValues }
               \cup { Under("timeline_data",
                            JList(<<JDict([date |-> JStr("2024-01-01"), values |-> v])>>))
                        : v \in WrongValues }
               \cup { Under("timeline_data",
                            JList(<<JDict([date |-> JStr("2024-01-01"),
                                           values |-> JList(<<v>>)])>>))
                        : v \in WrongValues }
          ELSE {})

MalformedInputs(name) ==
    MissingInputs \cup { Under(PayloadKey(name), v) : v \in MalformedPayloads(name) }

InitMalformed ==
    /\ SERP_KEYS = <<>>
    /\ AtRest
    /\ jsonErrIsRequestException = TRUE
    /\ fname \in Parsers
    /\ arg \in MalformedInputs(fname)
    /\ locals = <<>>
    /\ ret = Raise("not called")
    /\ fpc = "call"

CallParse ==
    /\ fname \in Parsers
    /\ fpc = "call"
    /\ ret' = CallParser(fname, arg)
    /\ fpc' = "returned"
    /\ UNCHANGED <<mainVars, fname, arg, locals>>

NextMalformed == CallParse

SpecMalformed == InitMalformed /\ [][NextMalformed]_vars

(***************************************************************************)
(* Properties of the parsers on malformed input (specification             *)
(* SpecMalformed)                                                          *)
(***************************************************************************)
(* C12: each of the four parsers, applied to a missing or malformed         *)
(* response, returns an empty collection and raises no exception.          *)
NormalizersTotal ==
    (fname \in Parsers /\ fpc = "returned") => (ret.ok /\ ret.v = <<>>)

(***************************************************************************)
(* A parser applied to a response and then to its own output, put back     *)
(* under the key and in the bucket the parser reads.                       *)
(***************************************************************************)
Renormalized == {"parse_related_topics", "parse_related_queries", "parse_news_results"}

NewsRecords ==
    { JDict([title |-> JStr("Shoe news"), link |-> JStr("http://n/1"),
             source |-> JDict([name |-> JStr("Daily")]), date |-> JStr("today")]),
      JDict([title |-> JStr("Old news"), link |-> JStr("http://n/2"),
             source |-> JStr("Weekly")]),
      JDict([link |-> JStr("http://n/3")]),
      JDict([link |-> JStr("http://n/4"), source |-> JDict(EmptyDict)]),
      JDict([link |-> JStr("http://n/5"), source |-> JDict([name |-> JNull])]),
      JDict([title |-> JStr("No link"), source |-> JStr("Weekly")]) }

(* a response carrying `items` where the parser `name` looks for them *)
Wrapped(name, items) ==
    IF name = "parse_news_results" THEN Under(PayloadKey(name), JList(items))
    ELSE Under(PayloadKey(name), Under("top", JList(items)))

RawRecords(name) ==
    CASE name = "parse_related_topics"  -> TopicRecords
      [] name = "parse_related_queries" ->
           QueryRecords \cup {JDict([query |-> JStr("new shoes"), rising |-> JBool(TRUE)])}
      [] name = "parse_news_results"    -> NewsRecords

InitRenormalize ==
    /\ SERP_KEYS = <<>>
    /\ AtRest
    /\ jsonErrIsRequestException = TRUE
    /\ fname \in Renormalized
    /\ \E items \in Lists(RawRecords(fname), MaxBucket) : arg = Wrapped(fname, items)
    /\ locals = <<>>
    /\ ret = Raise("not called")
    /\ fpc = "call"

(* the parser on the upstream's response *)
Normalize ==
    /\ fname \in Renormalized
    /\ fpc = "call"
    /\ ret' = CallParser(fname, arg)
    /\ fpc' = "returned"
    /\ UNCHANGED <<mainVars, fname, arg, locals>>

(* the parser on its own output; locals keeps the first output *)
NormalizeAgain ==
    /\ fname \in Renormalized
    /\ fpc = "returned"
    /\ ret.ok
    /\ locals' = ret.v
    /\ ret' = CallParser(fname, Wrapped(fname, ret.v))
    /\ fpc' = "returned twice"
    /\ UNCHANGED <<mainVars, fname, arg>>

NextRenormalize == Normalize \/ NormalizeAgain

SpecRenormalize == InitRenormalize /\ [][NextRenormalize]_vars

(***************************************************************************)
(* Properties of repeated normalization (specification SpecRenormalize)    *)
(***************************************************************************)
(* C13: the topics, queries and news parsers applied to their own output    *)
(* return that output: no item dropped or added, every field unchanged.    *)
NormalizeIdempotent ==
    (fname \in Renormalized /\ fpc = "returned twice") => (ret.ok /\ ret.v = locals)

(***************************************************************************)
(* SECTION 6: analyze_replies_sentiment (lines 589-678).  A compound score *)
(* of VADER is a double with four decimals; the model names it by the      *)
(* integer k = score * 10^4 and computes with the double nearest k / 10^4: *)
(* a sign and a magnitude, the magnitude an integer multiple of 2^-57 kept *)
(* in four limbs of 18 bits, most significant first.                       *)
(***************************************************************************)
Zero4 == <<0, 0, 0, 0>>

(* the double nearest 0.05, literal of lines 620, 622, 654 and 660:         *)
(* 0x1999999999999A * 2^-57                                                 *)
M005 == <<0, 104857, 157286, 104858>>

(* the magnitude of the double nearest |k| / 10^4, for the scores the       *)
(* analyzer of the model gives                                              *)
DoubleMag(k) ==
    CASE k = 0    -> Zero4
      [] k = 499  -> <<0, 104647, 231945, 2936>>
      [] k = 500  -> M005
      [] k = 5000 -> <<4, 0, 0, 0>>

Double(k) == [neg |-> k < 0, mag |-> DoubleMag(IF k < 0 THEN -k ELSE k)]

MagAdd(a, b) ==
    LET s0 == a[4] + b[4]
        s1 == a[3] + b[3] + (s0 \div Limb)
        s2 == a[2] + b[2] + (s1 \div Limb)
        s3 == a[1] + b[1] + (s2 \div Limb)
    IN <<s3, s2 % Limb, s1 % Limb, s0 % Limb>>

(* a - b for a >= b *)
MagSub(a, b) ==
    LET d0 == a[4] - b[4]
        c0 == IF d0 < 0 THEN 1 ELSE 0
        d1 == a[3] - b[3] - c0
        c1 == IF d1 < 0 THEN 1 ELSE 0
        d2 == a[2] - b[2] - c1
        c2 == IF d2 < 0 THEN 1 ELSE 0
        d3 == a[1] - b[1] - c2
    IN <<d3, d2 + c2 * Limb, d1 + c1 * Limb, d0 + c0 * Limb>>

MagLess(a, b) ==
    \E i \in 1..4 : a[i] < b[i] /\ \A j \in 1..(i - 1) : a[j] = b[j]

(* n * a for a small natural n *)
MagScale(a, n) ==
    LET q0 == n * a[4]
        q1 == n * a[3] + (q0 \div Limb)
        q2 == n * a[2] + (q1 \div Limb)
        q3 == n * a[1] + (q2 \div Limb)
    IN <<q3, q2 % Limb, q1 % Limb, q0 % Limb>>

RECURSIVE BitLen(_)
BitLen(n) == IF n = 0 THEN 0 ELSE 1 + BitLen(n \div 2)

(* a magnitude rounded to a 53-bit significand, to nearest, ties to even *)
MagRound(a) ==
    LET e == IF a[1] > 0 THEN BitLen(a[1]) + 1 ELSE IF a[2] >= 2^17 THEN 1 ELSE 0
        unit == 2^e
        r == a[4] % unit
        kept == a[4] - r
        odd == (kept \div unit) % 2 = 1
        up == e > 0 /\ (2 * r > unit \/ (2 * r = unit /\ odd))
        s0 == kept + (IF up THEN unit ELSE 0)
        s1 == a[3] + (s0 \div Limb)
        s2 == a[2] + (s1 \div Limb)
        s3 == a[1] + (s2 \div Limb)
    IN <<s3, s2 % Limb, s1 % Limb, s0 % Limb>>

(* x + y in double arithmetic *)
FloatAdd(x, y) ==
    IF x.neg = y.neg THEN [neg |-> x.neg, mag |-> MagRound(MagAdd(x.mag, y.mag))]
    ELSE IF x.mag = y.mag THEN [neg |-> FALSE, mag |-> Zero4]
    ELSE IF MagLess(x.mag, y.mag) THEN [neg |-> y.neg, mag |-> MagRound(MagSub(y.mag, x.mag))]
    ELSE [neg |-> x.neg, mag |-> MagRound(MagSub(x.mag, y.mag))]

(* sum(sentiments_vals) of line 651: the scores added from left to right *)
RECURSIVE FloatSum(_, _)
FloatSum(scores, n) ==
    IF n = 0 THEN [neg |-> FALSE, mag |-> Zero4]
    ELSE FloatAdd(FloatSum(scores, n - 1), Double(scores[n]))

(* the double a.sum / a.len is kept as its dividend and divisor; every      *)
(* quotient of a zero sum is the double 0.0                                 *)
Quotient(sum, len) ==
    IF sum.mag = Zero4 THEN [sum |-> [neg |-> FALSE, mag |-> Zero4], len |-> 1]
    ELSE [sum |-> sum, len |-> len]

FloatZero == Quotient([neg |-> FALSE, mag |-> Zero4], 1)

(* |sum / len|, rounded to a double, > 0.05: the significand of 0.05 is     *)
(* even, so the rounded quotient exceeds 0.05 exactly when the quotient     *)
(* lies above the midpoint of 0.05 and the next double, 0.05 + 2^-58        *)
QuotientBeyond(q) ==
    MagLess(MagScale(MagAdd(MagScale(M005, 2), <<0, 0, 0, 1>>), q.len), MagScale(q.sum.mag, 2))

(* lines 620-625 *)
ReplyLabel(k) ==
    LET x == Double(k)
    IN IF ~x.neg /\ ~MagLess(x.mag, M005) THEN "POSITIVE"
       ELSE IF x.neg /\ ~MagLess(x.mag, M005) THEN "NEGATIVE"
       ELSE "NEUTRAL"

(* lines 654-667 *)
OverallLabel(cumulative) ==
    IF ~cumulative.sum.neg /\ QuotientBeyond(cumulative) THEN "Overall Positive"
    ELSE IF cumulative.sum.neg /\ QuotientBeyond(cumulative) THEN "Overall Negative"
    ELSE "Overall Neutral"

(* lines 656-671 *)
Recommendations(overall) ==
    CASE overall = "Overall Positive" ->
           << "Audience sentiment is positive! Keep creating content like this.",
              "Engage with the top positive comments to build community." >>
      [] overall = "Overall Negative" ->
           << "Sentiment is trending negative. Review comments for constructive feedback.",
              "Consider posting a clarification or follow-up if there is confusion." >>
      [] overall = "Overall Neutral" ->
           << "Sentiment is balanced. Try asking a specific question to spark more debate.",
              "Use the Keyword Recommendations tool to find more engaging topics." >>

(* the texts of the model and the compound score VADER gives each *)
CompoundOf ==
    [love |-> 5000, fine |-> 500, okay |-> 499, so |-> 0,
     hmm |-> -499, bad |-> -500, hate |-> -5000]

(* a text on which analyzer.polarity_scores raises *)
Unscorable == "<unscorable>"

(* line 616-617: scores['compound'] of a text, blank texts scoring 0 *)
polarity_scores(text) ==
    IF text = Unscorable THEN Raise("Exception")
    ELSE IF text \in DOMAIN CompoundOf THEN Ok(CompoundOf[text])
    ELSE Ok(0)

(* a test that lets whitespace through as text *)
BlankOnlyIfEmpty(text) == text = ""

(* line 612: not text.strip(), on the texts of the model *)
Blank(text) == text \in {"", "  "}

(* line 611: reply.get("text", "") *)
TextOf(reply) == IF "text" \in DOMAIN reply THEN reply.text ELSE ""

(* lines 629-637 *)
ScoredEntry(reply, text, k) ==
    [username |-> reply.username, text |-> text, label |-> ReplyLabel(k),
     score |-> k, polarity |-> k, permalink |-> None, timestamp |-> None]

(* line 641 *)
ErrorEntry(text, e) == <<[text |-> text, error |-> e]>>

(* lines 610-641: per_reply and sentiments_vals after the first n replies *)
RECURSIVE ScoreReplies(_, _)
ScoreReplies(replies_list, n) ==
    IF n = 0 THEN [per_reply |-> <<>>, sentiments_vals |-> <<>>]
    ELSE LET before == ScoreReplies(replies_list, n - 1)
             reply == replies_list[n]
             text == TextOf(reply)
         IN IF Blank(text) THEN before
            ELSE LET scores == polarity_scores(text) IN
                 IF scores.ok
                 THEN [per_reply |-> Append(before.per_reply, ScoredEntry(reply, text, scores.v)),
                       sentiments_vals |-> Append(before.sentiments_vals, scores.v)]
                 ELSE [per_reply |-> before.per_reply \o ErrorEntry(text, scores.exc),
                       sentiments_vals |-> before.sentiments_vals]

analyze_replies_sentiment(replies_list) ==
    IF replies_list = <<>>
    THEN [per_reply |-> <<>>, cumulative_sentiment |-> FloatZero,
          overall_sentiment |-> "No Text Replies",
          recommendations |-> <<"No replies with text found to analyze.">>]
    ELSE LET scored == ScoreReplies(replies_list, Len(replies_list))
             vals == scored.sentiments_vals
         IN IF vals = <<>>
            THEN [per_reply |-> scored.per_reply, cumulative_sentiment |-> FloatZero,
                  overall_sentiment |-> "No Sentiment Data",
                  recommendations |-> <<"Could not analyze sentiment.">>]
            ELSE LET cumulative == Quotient(FloatSum(vals, Len(vals)), Len(vals))
                     overall == OverallLabel(cumulative)
                 IN [per_reply |-> scored.per_reply, cumulative_sentiment |-> cumulative,
                     overall_sentiment |-> overall,
                     recommendations |-> Recommendations(overall)]

(***************************************************************************)
(* Direct calls of analyze_replies_sentiment on batches of at most         *)
(* MaxReplies replies: without text, with an empty or a whitespace text,   *)
(* with a text the analyzer scores, with a text on which it raises.        *)
(***************************************************************************)
MaxReplies == 2

Replies ==
    { [username |-> "ann"] }
    \cup { [username |-> "bob", text |-> t]
             : t \in {"", "  ", Unscorable} \cup DOMAIN CompoundOf }

InitSentiment ==
    /\ SERP_KEYS = <<>>
    /\ AtRest
    /\ jsonErrIsRequestException = TRUE
    /\ fname = "analyze_replies_sentiment"
    /\ arg \in Lists(Replies, MaxReplies)
    /\ locals = <<>>
    /\ ret = Raise("not called")
    /\ fpc = "call"

CallAnalyzeReplies ==
    /\ fname = "analyze_replies_sentiment"
    /\ fpc = "call"
    /\ ret' = Ok(analyze_replies_sentiment(arg))
    /\ fpc' = "returned"
    /\ UNCHANGED <<mainVars, fname, arg, locals>>

NextSentiment == CallAnalyzeReplies

SpecSentiment == InitSentiment /\ [][NextSentiment]_vars

(***************************************************************************)
(* Properties of analyze_replies_sentiment (specification SpecSentiment)   *)
(***************************************************************************)
SentimentReturned == fname = "analyze_replies_sentiment" /\ fpc = "returned"

HasScore(entry) == "score" \in DOMAIN entry

(* the scores listed in per_reply, in order *)
ListedScores(per_reply) ==
    LET scored == SelectSeq(per_reply, HasScore)
    IN [i \in 1..Len(scored) |-> scored[i].score]

RECURSIVE Total(_, _)
Total(scores, n) == IF n = 0 THEN 0 ELSE Total(scores, n - 1) + scores[n]

(* C14: a reply is POSITIVE iff its score >= 0.05, NEGATIVE iff <= -0.05,   *)
(* NEUTRAL otherwise, and the overall label follows from the mean of the    *)
(* scores by the same thresholds with the same inclusive boundaries: a mean *)
(* of exactly 0.05 is Overall Positive, of exactly -0.05 Overall Negative.  *)
SentimentThresholds ==
    SentimentReturned =>
      LET per_reply == ret.v.per_reply
          scores == ListedScores(per_reply)
          n == Len(scores)
          sum == Total(scores, n)
      IN /\ \A i \in 1..Len(per_reply) :
              HasScore(per_reply[i]) =>
                per_reply[i].label = (IF per_reply[i].score >= 500 THEN "POSITIVE"
                                      ELSE IF per_reply[i].score <= -500 THEN "NEGATIVE"
                                      ELSE "NEUTRAL")
         /\ n > 0 =>
              ret.v.overall_sentiment = (IF sum >= 500 * n THEN "Overall Positive"
                                         ELSE IF sum <= -500 * n THEN "Overall Negative"
                                         ELSE "Overall Neutral")

HasText(reply) == "text" \in DOMAIN reply /\ reply.text \notin {"", "  "}

(* C15: replies with an empty or whitespace-only text (or none) are neither *)
(* in per_reply nor in the mean; the cumulative score is the mean of the    *)
(* scores listed in per_reply and of no others; an empty batch and a batch  *)
(* of empty texts give cumulative 0.0, an empty per_reply and a label that  *)
(* is none of Overall Positive, Overall Negative, Overall Neutral.          *)
SentimentAggregation ==
    SentimentReturned =>
      LET per_reply == ret.v.per_reply
          texts == SelectSeq(arg, HasText)
          scores == ListedScores(per_reply)
      IN /\ ret.ok
         /\ Len(per_reply) = Len(texts)
         /\ \A i \in 1..Len(texts) : per_reply[i].text = texts[i].text
         /\ scores # <<>> =>
              ret.v.cumulative_sentiment = Quotient(FloatSum(scores, Len(scores)), Len(scores))
         /\ texts = <<>> =>
              /\ per_reply = <<>>
              /\ ret.v.cumulative_sentiment = FloatZero
              /\ ret.v.overall_sentiment \in {"No Text Replies", "No Sentiment Data"}
              /\ ret.v.overall_sentiment
                   \notin {"Overall Positive", "Overall Negative", "Overall Neutral"}

(* a whitespace-only reply next to a scored one: one entry, its score the mean *)
AggregationWitness ==
    /\ SentimentReturned
    /\ Len(arg) = 2
    /\ TextOf(arg[1]) = "  "
    /\ TextOf(arg[2]) = "love"
    /\ Len(ret.v.per_reply) = 1
    /\ ret.v.per_reply[1].score = 5000
    /\ ret.v.cumulative_sentiment = Quotient(Double(5000), 1)
    /\ ret.v.overall_sentiment = "Overall Positive"

Fails(reply) == TextOf(reply) = Unscorable

Scorable(reply) == ~Fails(reply)

OfFailed(entry) == entry.text = Unscorable

OfScored(entry) == ~OfFailed(entry)

(* C16: a reply on which scoring fails does not abort the batch: it is in   *)
(* per_reply with label ERROR and outside the mean, and every other reply   *)
(* is recorded, and the mean computed, as for the batch without it.         *)
FailureIsolated ==
    SentimentReturned =>
      LET per_reply == ret.v.per_reply
          without == analyze_replies_sentiment(SelectSeq(arg, Scorable))
          failed == SelectSeq(per_reply, OfFailed)
      IN /\ ret.ok
         /\ Len(failed) = Len(SelectSeq(arg, Fails))
         /\ \A i \in 1..Len(failed) :
              /\ "label" \in DOMAIN failed[i]
              /\ failed[i].label = "ERROR"
              /\ ~HasScore(failed[i])
         /\ SelectSeq(per_reply, OfScored) = without.per_reply
         /\ ret.v.cumulative_sentiment = without.cumulative_sentiment

(***************************************************************************)
(* SECTION 4: generate_groq_recommendations (lines 245-283).  The prompt   *)
(* is kept as the sequence of its lines, a line as the sequence of its     *)
(* pieces.  The Groq client is the environment: its construction and its   *)
(* completion call each succeed or raise.                                  *)
(***************************************************************************)
TopicsInPrompt == 5

QueriesInPrompt == 5

(* a prompt that takes one news item more *)
NewsInPromptOffByOne == 3 + 1

(* [:3] of line 261 *)
NewsInPrompt == 3

(* Groq(api_key=...): the client, or the exception of its constructor *)
NewClient(outcome) == IF outcome = "ok" THEN Ok("client") ELSE Raise(outcome)

(* one "- ..." line per item of `items` (lines 255, 258, 261) *)
TitleLine(item) == <<"- ", PyGet(item, "title", JStr("")).v.s>>

QueryLine(item) ==
    <<"- ", PyGet(item, "query", JStr("")).v.s, " ",
      IF Truthy(PyGet(item, "rising", JNull).v) THEN "(Rising)" ELSE "">>

(* lines 251-262 *)
PromptData(analysis_data, kw) ==
    LET topics == Prefix(analysis_data.related_topics, TopicsInPrompt)
        queries == Prefix(analysis_data.related_queries, QueriesInPrompt)
        news == Prefix(analysis_data.news_items, NewsInPrompt)
    IN [keyword |-> <<"Keyword: ", kw>>,
        trend |-> <<"Trend Analysis: ", analysis_data.trend_data.trend>>,
        topics |-> [i \in 1..Len(topics) |-> TitleLine(topics[i])],
        queries |-> [i \in 1..Len(queries) |-> QueryLine(queries[i])],
        news |-> [i \in 1..Len(news) |-> TitleLine(news[i])]]

NoPrompt == <<>>

(* the value returned and the prompt handed to the completion call, if any *)
generate_groq_recommendations(analysis_data, kw, construction, completion) ==
    LET client == NewClient(construction) IN
    IF ~client.ok
    THEN [ret |-> Ok(<<"Groq API key not configured. Error: ", client.exc>>),
          prompt |-> NoPrompt]
    ELSE LET prompt_data == PromptData(analysis_data, kw) IN
         IF completion.ok
         THEN [ret |-> Ok(completion.v), prompt |-> prompt_data]
         ELSE [ret |-> Ok(<<"An error occurred while calling the Groq API: ", completion.exc>>),
               prompt |-> prompt_data]

(***************************************************************************)
(* Direct calls of generate_groq_recommendations on the records            *)
(* run_full_analysis returns: lists of normalized items, up to MaxExtra    *)
(* more than the prompt takes, and a trend verdict.                        *)
(***************************************************************************)
MaxExtra == 1

TopicList(n) == [i \in 1..n |-> TopicItem(JStr(<<"topic", i>>), JStr("Topic"), JNum(i))]

QueryList(n) == [i \in 1..n |-> QueryItem(JStr(<<"query", i>>), JBool(i % 2 = 0))]

NewsList(n) ==
    [i \in 1..n |-> NewsItem(JStr(<<"news", i>>), JStr(<<"http://n/", i>>), JStr("Daily"), JStr(""))]

AnalysisRecords ==
    { [keyword |-> <<"shoes">>,
       related_topics |-> TopicList(t),
       related_queries |-> QueryList(q),
       trend_data |-> [trend |-> tr, reason |-> <<"simple_delta: from ">>],
       news_items |-> NewsList(n)]
        : t \in 0..(TopicsInPrompt + MaxExtra), q \in 0..(QueriesInPrompt + MaxExtra),
          n \in 0..(NewsInPrompt + MaxExtra), tr \in {"rising", "unknown"} }

GroqOutcomes ==
    { [construction |-> "ok", completion |-> Ok(<<"## Summary">>)],
      [construction |-> "ok", completion |-> Ok(<<"">>)],
      [construction |-> "ok", completion |-> Raise("APIConnectionError")],
      [construction |-> "ok", completion |-> Raise("RateLimitError")],
      [construction |-> "GroqError", completion |-> Raise("not called")] }

InitGroq ==
    /\ SERP_KEYS = <<>>
    /\ AtRest
    /\ jsonErrIsRequestException = TRUE
    /\ fname = "generate_groq_recommendations"
    /\ \E a \in AnalysisRecords, o \in GroqOutcomes : arg = [analysis_data |-> a, groq |-> o]
    /\ locals = NoPrompt
    /\ ret = Raise("not called")
    /\ fpc = "call"

CallGroq ==
    /\ fname = "generate_groq_recommendations"
    /\ fpc = "call"
    /\ LET g == generate_groq_recommendations(arg.analysis_data, arg.analysis_data.keyword,
                                              arg.groq.construction, arg.groq.completion)
       IN /\ ret' = g.ret
          /\ locals' = g.prompt
    /\ fpc' = "returned"
    /\ UNCHANGED <<mainVars, fname, arg>>

NextGroq == CallGroq

SpecGroq == InitGroq /\ [][NextGroq]_vars

(***************************************************************************)
(* Properties of generate_groq_recommendations (specification SpecGroq)    *)
(***************************************************************************)
GroqReturned == fname = "generate_groq_recommendations" /\ fpc = "returned"

Least(a, b) == IF a < b THEN a ELSE b

ErrorString(value) ==
    /\ Len(value) = 2
    /\ value[1] \in {"Groq API key not configured. Error: ",
                     "An error occurred while calling the Groq API: "}

(* C17: the prompt holds the trend label and one line for each of at most   *)
(* the first 5 topics, the first 5 queries and the first 3 news items, and  *)
(* nothing of the later ones; when the construction of the client or the    *)
(* completion call fails the function returns an error string; it never     *)
(* raises.                                                                  *)
GroqComposer ==
    GroqReturned =>
      LET a == arg.analysis_data
          failed == arg.groq.construction # "ok" \/ ~arg.groq.completion.ok
      IN /\ ret.ok
         /\ failed => ErrorString(ret.v)
         /\ ~failed => ret.v = arg.groq.completion.v
         /\ arg.groq.construction = "ok" =>
              /\ locals.trend[2] = a.trend_data.trend
              /\ Len(locals.topics) = Least(5, Len(a.related_topics))
              /\ Len(locals.queries) = Least(5, Len(a.related_queries))
              /\ Len(locals.news) = Least(3, Len(a.news_items))
              /\ \A i \in 1..Len(locals.topics) :
                   locals.topics[i][2] = a.related_topics[i].d["title"].s
              /\ \A i \in 1..Len(locals.queries) :
                   locals.queries[i][2] = a.related_queries[i].d["query"].s
              /\ \A i \in 1..Len(locals.news) :
                   locals.news[i][2] = a.news_items[i].d["title"].s

(* more items than the prompt takes, and a completion call that fails *)
GroqWitness ==
    /\ GroqReturned
    /\ Len(arg.analysis_data.related_topics) = 6
    /\ Len(arg.analysis_data.related_queries) = 6
    /\ Len(arg.analysis_data.news_items) = 4
    /\ arg.groq.completion = Raise("RateLimitError")
    /\ ret = Ok(<<"An error occurred while calling the Groq API: ", "RateLimitError">>)
    /\ Len(locals.topics) = 5
    /\ Len(locals.news) = 3

(***************************************************************************)
(* Properties of the keys used by one run_full_analysis call               *)
(* (specification Spec)                                                    *)
(***************************************************************************)
(* C18: each branch advances the rotation at most once, and every request  *)
(* the branch sends, in every retry and for every keyword variant, carries *)
(* the key its one draw returned, whatever the pool holds.                 *)
OneCredentialPerBranch ==
    \A b \in Services :
      /\ w[b].nd <= 1
      /\ w[b].sent \subseteq {w[b].key}

PairwiseDistinct(f) == \A a, b \in DOMAIN f : a # b => f[a] # f[b]

(* C19: with no service key configured and at least four distinct keys in  *)
(* the pool, the four workers of the call hold four pairwise distinct      *)
(* keys, whatever the interleaving and whatever other calls draw meanwhile. *)
FourDistinctKeys ==
    ( /\ \A s \in Services : Falsy(environ[s])
      /\ Cardinality({SERP_KEYS[i] : i \in 1..Len(SERP_KEYS)}) >= 4
      /\ \A b \in Services : w[b].pc \notin {"idle", "start"} )
    => PairwiseDistinct([b \in Services |-> w[b].key])

(***************************************************************************)
(* run_full_analysis under fair scheduling: the pool has a thread for each *)
(* of the four workers (max_workers=4), the threads and the calling thread *)
(* keep running, and every requests.get returns or times out (timeout=120).*)
(* Other requests of the process need not draw at all.                     *)
(***************************************************************************)
LiveConfigs ==
    { Config(EnvAll,  <<>>,     <<"best", "running", "trail", "shoes">>, TRUE),
      Config(EnvAll,  <<>>,     <<"best", "shoes">>,                     FALSE),
      Config(EnvNone, <<"k1", "k2", "k3", "k4">>, <<Surrogate>>,         TRUE),
      Config(EnvNone, <<>>,     <<"shoes">>,                             TRUE) }

InitLive ==
    /\ \E c \in LiveConfigs :
         /\ environ = c.env
         /\ SERP_KEYS = c.keys
         /\ keyword = c.kw
         /\ jsonErrIsRequestException = c.modern
    /\ key_cycle = MakeCycle(SERP_KEYS)
    /\ drawn = <<>>
    /\ orch = [pc |-> "submit", i |-> 1, exc |-> ""]
    /\ w = [b \in Services |-> IdleWorker(b)]
    /\ result = NoResult
    /\ others = 0
    /\ NoCall

(* a step of the call itself: of its calling thread or of one of its workers *)
RequestStep ==
    \/ Submit
    \/ Collect
    \/ Return
    \/ \E b \in Services : Draw(b) \/ Attempt(b)

(* as long as a thread of the call can take a step, one of them does *)
Fairness == WF_vars(RequestStep)

SpecLive == InitLive /\ [][Next]_vars /\ Fairness

(***************************************************************************)
(* Properties of the work of one call (specification SpecLive)             *)
(***************************************************************************)
(* the keyword variants a branch may try, in order: the forecast branch the *)
(* original keyword, the simplified one and the core, the others the        *)
(* keyword alone                                                            *)
VariantsOf(b) == IF b = "forecast" THEN unique_versions(keyword) ELSE <<keyword>>

(* the place, among all attempts its branch can issue, of the attempt a     *)
(* branch inside serp_get issues next: three places for each variant        *)
AttemptOrdinal(wb) == (wb.v - 1) * 3 + wb.attempt + 1

BranchBound(b) == IF b = "forecast" THEN 9 ELSE 3

AttemptBounds ==
    /\ \A b \in Services :
         w[b].pc = "call" =>
           /\ w[b].v \in 1..Len(VariantsOf(b))
           /\ QueryOf(b, w[b], keyword) = VariantsOf(b)[w[b].v]
           /\ AttemptOrdinal(w[b]) <= BranchBound(b)
    /\ LET p == process_keyword_for_trends(keyword)
       IN \E n \in 1..3 : VariantsOf("forecast") = Prefix(<<p.original, p.simplified, p.core>>, n)
                          \/ VariantsOf("forecast") = <<p.original, p.core>>
    /\ BranchBound("forecast") + BranchBound("topics") + BranchBound("queries")
         + BranchBound("news") = 18

(* every step of a branch inside serp_get uses up a place or ends the       *)
(* branch; the forecast branch moves to the next variant only after a       *)
(* response with an error or without interest_over_time, and ends on the    *)
(* first response that has no error and contains it                         *)
AttemptsAdvance ==
    \A b \in Services :
      (w[b].pc = "call" /\ w'[b] # w[b]) =>
        /\ \/ w'[b].pc = "done"
           \/ w'[b].pc = "call" /\ AttemptOrdinal(w'[b]) > AttemptOrdinal(w[b])
        /\ w'[b].v # w[b].v =>
             /\ w'[b].v = w[b].v + 1
             /\ ForecastAccepts(w'[b].ret) = Ok(FALSE)
        /\ (b = "forecast" /\ w'[b].attempt = 0 /\ ~w'[b].escaped
              /\ ForecastAccepts(w'[b].ret) = Ok(TRUE)) => w'[b].pc = "done"

(* C20: every call returns; the topics, queries and news branches issue at  *)
(* most 3 HTTP attempts each; the forecast branch tries the distinct        *)
(* variants in the order original, simplified, core, stops at the first     *)
(* accepted response and issues at most 9 attempts; at most 18 in all.      *)
BoundedWork ==
    /\ <>Returned
    /\ []AttemptBounds
    /\ [][AttemptsAdvance]_vars

(* a call that has returned after its forecast branch went through all      *)
(* three variants, the last one failing after its retries                   *)
BoundedWorkWitness ==
    /\ Returned
    /\ Len(unique_versions(keyword)) = 3
    /\ w["forecast"].v = 3
    /\ w["forecast"].ret = ErrRetries
    /\ w["topics"].ret = ErrRetries
    /\ w["queries"].ret = ErrRetries
    /\ w["news"].ret = ErrRetries

====
